---- MODULE Spec2Model ----
(***************************************************************************)
(* State-machine model of the signal scheduling core of smart-flow-v2:     *)
(*   SignalController          (src/src/signal_controller.py)              *)
(*   AdvancedSignalController  (src/src/advanced_signal_controller.py)     *)
(* Times are whole seconds.  The wall clock read by time.time() is the     *)
(* variable now; it is advanced by the environment (Pass) and is           *)
(* independent of the elapsed_time argument handed to update_state.        *)
(* A phase duration is the exact rational num/den, so that proportional    *)
(* rescaling of a plan is not rounded.                                     *)
(***************************************************************************)
EXTENDS Integers, Sequences, FiniteSets, TLC

\* ------------------------------------------------------------------------
\* Bounds of the model
\* ------------------------------------------------------------------------
MaxTime == 41            \* the wall clock stops advancing here
MaxHistory == 2          \* cap on the length of _transition_history
MaxOverrides == 1        \* cap on its length when override_signal appends
MaxPending == 1          \* cap on the number of queued phase requests
MaxOvershoot == 11       \* cap on how far a base remaining time runs below 0
MaxLongTime == 306       \* where the wall clock stops when it moves in long steps
MaxPlans == 1            \* cap on the length of _coordination_plans
\* vehicles recorded between two resets of the network metrics
MaxVehicles == 3
\* stops a single vehicle may report
MaxVehicleStops == 3
\* where the wall clock of the main loop stops
MaxLoopTime == 61

\* ------------------------------------------------------------------------
\* Program constants
\* ------------------------------------------------------------------------
min_green == 10
max_green == 60
yellow_duration == 3
min_cycle_time == 40
max_cycle_time == 180
fairness_threshold == 120
FairnessBoostFactorX10 == 15     \* fairness_boost_factor = 1.5
base_time == 60
LongQueueThreshold == 50
MaxExtraTime == 10
EmergencyDuration == 30
EmergencyHoldSeconds == 30
DefaultCycleTime == 60
SyncInterval == 1
DefaultCorridorTravelTime == 30
BaseCrossingTime == 7
MinTurn == 10
MaxTurn == 30
TurnSecondsPerVehicle == 3

RED == "red"
YELLOW == "yellow"
GREEN == "green"
SignalState == {RED, YELLOW, GREEN}

THROUGH == "through"
PROTECTED_LEFT == "protected_left"
PEDESTRIAN == "pedestrian"
EMERGENCY == "emergency"

None == "None"

\* ------------------------------------------------------------------------
\* Inputs the environment may supply
\* ------------------------------------------------------------------------
Lanes == {"north", "south"}
BaseGreenTimeChoices == {10, 20}
BaseElapsedChoices == {5, 11}
GreenTimeChoices == {20}
ElapsedChoices == {11}
TimeSteps == {20}
OverrideDurations == {10, 30}
PedDemands == {3}
TurnDemands == {2}
LongTimeSteps == {61}
DemandElapsedChoices == {50}
CrowdDemands == {3, 160}
SparseDemands == {0, 1}
LoopTimeSteps == {5}
IntersectionChoices == { <<"A", "B">>, <<"A", "B", "C">> }
ConnectionChoices ==
    { << <<"A", "B">> >>,
      << <<"A", "B">>, <<"B", "C">> >>,
      << <<"A", "B">>, <<"A", "C">>, <<"B", "C">> >>,
      << <<"B", "C">> >> }
TravelTimeChoices == {30, 70}
CycleTimeChoices == {50, 180}
UnknownIntersection == "X"
CorridorChoices ==
    { <<>>, <<"X">>, <<"A", "X">>, <<"B">>, <<"A", "B">>, <<"B", "C">>,
      <<"A", "B", "C">> }

\* An insertion-ordered dict is a sequence of <<key, value>> pairs with
\* distinct keys.
OrderedDicts(K, V) ==
    { s \in UNION { [1..n -> K \X V] : n \in 0..Cardinality(K) } :
        \A i, j \in 1..Len(s) : i # j => s[i][1] # s[j][1] }

Keys(d) == { d[i][1] : i \in 1..Len(d) }
Lookup(d, k) == d[CHOOSE i \in 1..Len(d) : d[i][1] = k][2]
DictOf(d) == [ k \in Keys(d) |-> Lookup(d, k) ]

RemoveAt(s, i) == SubSeq(s, 1, i - 1) \o SubSeq(s, i + 1, Len(s))

\* sorted(items, key=value, reverse=True): stable, highest value first
RECURSIVE SortedByValueDesc(_)
SortedByValueDesc(items) ==
    IF items = <<>> THEN <<>>
    ELSE LET i == CHOOSE i \in 1..Len(items) :
                    /\ \A j \in 1..Len(items) : items[j][2] <= items[i][2]
                    /\ \A j \in 1..(i - 1) : items[j][2] < items[i][2]
         IN <<items[i]>> \o SortedByValueDesc(RemoveAt(items, i))

VARIABLES
    now,                        \* time.time()
    states,                     \* _states
    green_times,                \* _green_times
    remaining_times,            \* _remaining_times
    active_lane,                \* _active_lane
    lane_queue,                 \* _lane_queue
    last_green_times,           \* _last_green_times
    emergency_active,           \* _emergency_active
    emergency_lane,             \* _emergency_lane
    emergency_start_time,       \* _emergency_start_time (0 = None)
    manual_override_active,     \* _manual_override_active
    manual_override_lane,       \* _manual_override_lane
    manual_override_end_time,   \* _manual_override_end_time (0 = None)
    current_plan,               \* _current_plan: <<>> = None, <<plan>> otherwise
    current_phase_index,        \* _current_phase_index (0-based as in the code)
    phase_start_time,           \* _phase_start_time
    pending_pedestrian_phases,  \* _pending_pedestrian_phases
    pending_turn_phases,        \* _pending_turn_phases
    transition_history,         \* _transition_history
    network_config,             \* MultiIntersectionCoordinator.network_config
    controllers,                \* _controllers: the registered schedulers
    offsets,                    \* _offsets
    coordination_plans,         \* _coordination_plans
    last_sync_time,             \* _last_sync_time
    total_vehicles_processed,   \* _total_vehicles_processed
    total_stops,                \* _total_stops
    total_travel_time,          \* _total_travel_time
    vehicle_count,              \* _vehicle_count
    call,                       \* the last operation invoked and its arguments
    ret                         \* what that operation returned

baseVars == <<states, green_times, remaining_times, active_lane, lane_queue>>
advVars == <<last_green_times, emergency_active, emergency_lane,
             emergency_start_time, manual_override_active, manual_override_lane,
             manual_override_end_time, current_plan, current_phase_index,
             phase_start_time, pending_pedestrian_phases, pending_turn_phases,
             transition_history>>
coordVars == <<network_config, controllers, offsets, coordination_plans,
               last_sync_time, total_vehicles_processed, total_stops,
               total_travel_time, vehicle_count>>
vars == <<now, states, green_times, remaining_times, active_lane, lane_queue,
          last_green_times, emergency_active, emergency_lane,
          emergency_start_time, manual_override_active, manual_override_lane,
          manual_override_end_time, current_plan, current_phase_index,
          phase_start_time, pending_pedestrian_phases, pending_turn_phases,
          transition_history, network_config, controllers, offsets,
          coordination_plans, last_sync_time, total_vehicles_processed,
          total_stops, total_travel_time, vehicle_count, call, ret>>

Call(op, lane, arg) ==
    [op |-> op, lane |-> lane, arg |-> arg, flagged |-> {}, data |-> <<>>]
Ret(transitions, plan, raised) ==
    [transitions |-> transitions, plan |-> plan, raised |-> raised]
NoRet == Ret(<<>>, <<>>, FALSE)
Raised == Ret(<<>>, <<>>, TRUE)

EmptyDict == [ l \in {} |-> 0 ]

\* NetworkConfig
NetworkConfig(intersections, connections, travel_times, coordination_enabled) ==
    [intersections |-> intersections, connections |-> connections,
     travel_times |-> travel_times, coordination_enabled |-> coordination_enabled]

\* the network main.py builds without a configuration file (lines 420-425)
SingleIntersectionNetwork == NetworkConfig(<<"main">>, <<>>, EmptyDict, TRUE)

\* the controller fields after AdvancedSignalController.__init__
ControllerInit ==
    /\ now = 1
    /\ states = EmptyDict
    /\ green_times = EmptyDict
    /\ remaining_times = EmptyDict
    /\ active_lane = None
    /\ lane_queue = <<>>
    /\ last_green_times = EmptyDict
    /\ emergency_active = FALSE
    /\ emergency_lane = None
    /\ emergency_start_time = 0
    /\ manual_override_active = FALSE
    /\ manual_override_lane = None
    /\ manual_override_end_time = 0
    /\ current_plan = <<>>
    /\ current_phase_index = 0
    /\ phase_start_time = 0
    /\ pending_pedestrian_phases = <<>>
    /\ pending_turn_phases = <<>>
    /\ transition_history = <<>>

\* the coordinator fields after MultiIntersectionCoordinator.__init__
CoordinatorInit(config) ==
    /\ network_config = config
    /\ controllers = EmptyDict
    /\ offsets = EmptyDict
    /\ coordination_plans = <<>>
    /\ last_sync_time = 0
    /\ total_vehicles_processed = 0
    /\ total_stops = 0
    /\ total_travel_time = 0
    /\ vehicle_count = 0

Init ==
    /\ ControllerInit
    /\ CoordinatorInit(SingleIntersectionNetwork)
    /\ call = Call("init", None, 0)
    /\ ret = NoRet

\* ------------------------------------------------------------------------
\* The environment: wall-clock time passes between calls
\* ------------------------------------------------------------------------
Pass ==
    \E d \in TimeSteps :
        /\ now + d <= MaxTime
        /\ now' = now + d
        /\ call' = Call("pass", None, d)
        /\ ret' = NoRet
        /\ UNCHANGED <<baseVars, advVars, coordVars>>

\* wall-clock time passes in long steps (more than a full phase at a time)
PassLong ==
    \E d \in LongTimeSteps :
        /\ now + d <= MaxLongTime
        /\ now' = now + d
        /\ call' = Call("pass", None, d)
        /\ ret' = NoRet
        /\ UNCHANGED <<baseVars, advVars, coordVars>>

\* ------------------------------------------------------------------------
\* SignalController
\* ------------------------------------------------------------------------

\* _advance_to_next_lane, applied to the given _states / _remaining_times
AdvanceToNextLane(st, rem, queue) ==
    IF queue # <<>>
    THEN [states |-> [st EXCEPT ![Head(queue)] = GREEN],
          remaining_times |-> [rem EXCEPT ![Head(queue)] = green_times'[Head(queue)]],
          active_lane |-> Head(queue),
          lane_queue |-> Tail(queue)]
    ELSE [states |-> st, remaining_times |-> rem,
          active_lane |-> None, lane_queue |-> queue]

\* the lanes are queued in the order of the input map, unsorted
BaseStartCycle_InputOrder(gt) ==
    /\ green_times' = DictOf(gt)
    /\ LET queue == [ i \in 1..Len(gt) |-> gt[i][1] ]
           adv == AdvanceToNextLane([ l \in Keys(gt) |-> RED ],
                                    [ l \in Keys(gt) |-> 0 ], queue)
       IN /\ states' = adv.states
          /\ remaining_times' = adv.remaining_times
          /\ active_lane' = adv.active_lane
          /\ lane_queue' = adv.lane_queue

\* SignalController.start_cycle on the base fields
BaseStartCycle(gt) ==
    /\ green_times' = DictOf(gt)
    /\ LET queue == [ i \in 1..Len(gt) |-> SortedByValueDesc(gt)[i][1] ]
           adv == AdvanceToNextLane([ l \in Keys(gt) |-> RED ],
                                    [ l \in Keys(gt) |-> 0 ], queue)
       IN /\ states' = adv.states
          /\ remaining_times' = adv.remaining_times
          /\ active_lane' = adv.active_lane
          /\ lane_queue' = adv.lane_queue

\* a YELLOW lane whose time expired is left YELLOW instead of turning RED
ExpiredState_YellowStays(s) ==
    YELLOW

\* the state a lane whose time expired moves to (signal_controller.py 142-150)
ExpiredState(s) ==
    IF s = GREEN THEN YELLOW ELSE RED

\* the time by which the green was overrun is taken off the yellow time
YellowRemaining_CarriesOvershoot(left) ==
    yellow_duration + left

\* signal_controller.py 145: the remaining time a lane turning YELLOW is
\* given, `left` being what remained of its green time after the decrement
YellowRemaining(left) ==
    yellow_duration

\* SignalController.update_state on the base fields
BaseUpdateState(elapsed) ==
    IF active_lane = None
    THEN UNCHANGED baseVars
    ELSE LET left == remaining_times[active_lane] - elapsed
             rem1 == [remaining_times EXCEPT ![active_lane] = left]
         IN /\ green_times' = green_times
            /\ IF left <= 0 /\ states[active_lane] = GREEN
               THEN /\ states' = [states EXCEPT ![active_lane] = ExpiredState(GREEN)]
                    /\ remaining_times' = [rem1 EXCEPT ![active_lane] = YellowRemaining(left)]
                    /\ UNCHANGED <<active_lane, lane_queue>>
               ELSE IF left <= 0 /\ states[active_lane] = YELLOW
               THEN LET adv == AdvanceToNextLane(
                                  [states EXCEPT ![active_lane] = ExpiredState(YELLOW)],
                                  [rem1 EXCEPT ![active_lane] = 0],
                                  lane_queue)
                    IN /\ states' = adv.states
                       /\ remaining_times' = adv.remaining_times
                       /\ active_lane' = adv.active_lane
                       /\ lane_queue' = adv.lane_queue
               ELSE /\ remaining_times' = rem1
                    /\ UNCHANGED <<states, active_lane, lane_queue>>

\* SignalController.start_cycle(green_times) called on a base controller
SignalControllerStartCycle ==
    \E gt \in OrderedDicts(Lanes, BaseGreenTimeChoices) :
        /\ BaseStartCycle(gt)
        /\ call' = Call("start_cycle", None, Len(gt))
        /\ ret' = NoRet
        /\ UNCHANGED <<now, advVars, coordVars>>

\* start_cycle(green_times), inherited unchanged by AdvancedSignalController
StartCycle ==
    \E gt \in { g \in OrderedDicts(Lanes, GreenTimeChoices) : Keys(g) = Lanes } :
        /\ BaseStartCycle(gt)
        /\ call' = Call("start_cycle", None, Len(gt))
        /\ ret' = NoRet
        /\ UNCHANGED <<now, advVars, coordVars>>

\* SignalController.update_state(elapsed_time) called on a base controller
SignalControllerUpdateState ==
    \E elapsed \in BaseElapsedChoices :
        /\ BaseUpdateState(elapsed)
        /\ call' = Call("update_state", None, elapsed)
        /\ ret' = NoRet
        /\ UNCHANGED <<now, advVars, coordVars>>

BaseNext == SignalControllerStartCycle \/ SignalControllerUpdateState
SpecBase == Init /\ [][BaseNext]_vars

\* the base controller keeps being ticked
SpecBaseLive ==
    Init /\ [][BaseNext]_vars /\ WF_vars(SignalControllerUpdateState)

\* ------------------------------------------------------------------------
\* AdvancedSignalController: allocation
\* ------------------------------------------------------------------------
VehicleTypes == {"car", "bus", "truck", "bicycle"}

LaneData(count, queue, wait, types, emergency, peds) ==
    [vehicle_count |-> count, queue_length |-> queue, wait_time |-> wait,
     vehicle_types |-> types, has_emergency |-> emergency,
     pedestrian_count |-> peds]

Cars(n) == [ t \in VehicleTypes |-> IF t = "car" THEN n ELSE 0 ]
IdleLane == LaneData(0, 0, 0, Cars(0), FALSE, 0)
LightLane == LaneData(2, 0, 0, Cars(2), FALSE, 0)
EmergencyLane == LaneData(2, 0, 0, Cars(2), TRUE, 0)
BusyLane == LaneData(10, 0, 0, Cars(10), FALSE, 0)
HeavierLane == LaneData(5, 0, 0, Cars(2), FALSE, 0)
QueuedLane == LaneData(2, 60, 0, Cars(2), FALSE, 0)
NormalLaneDataChoices == {IdleLane}
AllocLaneDataChoices == {IdleLane, LightLane, HeavierLane, QueuedLane}
LaneDataChoices == {IdleLane, LightLane, EmergencyLane}

RECURSIVE SumOver(_, _)
SumOver(f, S) ==
    IF S = {} THEN 0
    ELSE LET x == CHOOSE x \in S : TRUE IN f[x] + SumOver(f, S \ {x})

RECURSIVE SeqSum(_)
SeqSum(s) == IF s = <<>> THEN 0 ELSE Head(s) + SeqSum(Tail(s))

Max(a, b) == IF a >= b THEN a ELSE b
Min(a, b) == IF a <= b THEN a ELSE b

\* per-vehicle class weight times the 0.2 type factor, in hundredths
TypeWeightX100(t) ==
    IF t = "bus" THEN 40
    ELSE IF t = "truck" THEN 30
    ELSE IF t = "bicycle" THEN 16
    ELSE 20

\* fairness_boost of a lane, in hundredths
FairnessBoostX100(lane) ==
    LET last_green == IF lane \in DOMAIN last_green_times
                      THEN last_green_times[lane] ELSE 0
        time_since_green == now - last_green
    IN IF last_green > 0 /\ time_since_green > fairness_threshold
       THEN (time_since_green - fairness_threshold) * FairnessBoostFactorX10 * 10
       ELSE 0

\* priority of one lane, in hundredths
PriorityX100(lane, data) ==
    Max(0, data.vehicle_count * 100
           + data.queue_length * 50
           + data.wait_time * 30
           + SumOver([ t \in VehicleTypes |->
                         data.vehicle_types[t] * TypeWeightX100(t) ], VehicleTypes)
           + FairnessBoostX100(lane))

\* _calculate_priorities: ordered dict lane -> priority (hundredths)
CalculatePriorities(lane_data) ==
    [ i \in 1..Len(lane_data) |->
        <<lane_data[i][1], PriorityX100(lane_data[i][1], lane_data[i][2])>> ]

\* the share of a lane shrinks as its priority grows
GreenTimeOf_Complement(priority, total_priority, data) ==
    Max(min_green, Min(max_green,
        (base_time * (total_priority - priority)) \div total_priority))

\* green time of one lane given its priority and the priority total
GreenTimeOf(priority, total_priority, data) ==
    LET clamped == Max(min_green, Min(max_green, (base_time * priority) \div total_priority))
    IN IF data.queue_length > LongQueueThreshold
       THEN Min(max_green, clamped + Min(MaxExtraTime, data.queue_length \div 10))
       ELSE clamped

\* the first lane of the input is handed max_green whatever its priority
AllocateGreenTimes_FirstLaneMax(priorities, lane_data) ==
    [ i \in 1..Len(priorities) |->
        <<priorities[i][1], IF i = 1 THEN max_green ELSE min_green>> ]

\* _allocate_green_times: ordered dict lane -> green seconds
AllocateGreenTimes(priorities, lane_data) ==
    LET total_priority == SeqSum([ i \in 1..Len(priorities) |-> priorities[i][2] ])
    IN [ i \in 1..Len(priorities) |->
           <<priorities[i][1],
             IF total_priority = 0 THEN min_green
             ELSE GreenTimeOf(priorities[i][2], total_priority, lane_data[i][2])>> ]

Duration(n) == [num |-> n, den |-> 1]
SignalPhase(type, lane, duration, state) ==
    [phase_type |-> type, lanes |-> <<lane>>, duration |-> duration, state |-> state]
SignalPlan(phases, total, emergency) ==
    [phases |-> phases, total_cycle_time |-> total, emergency_override |-> emergency]

RECURSIVE Flatten(_)
Flatten(ss) == IF ss = <<>> THEN <<>> ELSE Head(ss) \o Flatten(Tail(ss))

\* pedestrian crossing time of one queued request
CrossingTime(demand) == BaseCrossingTime + (demand - 1)

\* turn phase duration of one queued request
TurnDuration(demand) == Max(MinTurn, Min(MaxTurn, demand * TurnSecondsPerVehicle))

\* the queued pedestrian and turn requests are left out of the phase list
CreatePhases_ThroughOnly(gts) ==
    LET sorted_lanes == SortedByValueDesc(gts)
    IN Flatten([ i \in 1..Len(sorted_lanes) |->
           << SignalPhase(THROUGH, sorted_lanes[i][1],
                          Duration(sorted_lanes[i][2]), GREEN),
              SignalPhase(THROUGH, sorted_lanes[i][1],
                          Duration(yellow_duration), YELLOW) >> ])

\* _create_phases: the phase list (the pending queues are drained by the caller)
CreatePhases(gts) ==
    LET sorted_lanes == SortedByValueDesc(gts)
        through == Flatten([ i \in 1..Len(sorted_lanes) |->
            IF sorted_lanes[i][2] <= 0 THEN <<>>
            ELSE << SignalPhase(THROUGH, sorted_lanes[i][1],
                                Duration(sorted_lanes[i][2]), GREEN),
                    SignalPhase(THROUGH, sorted_lanes[i][1],
                                Duration(yellow_duration), YELLOW) >> ])
        peds == [ i \in 1..Len(pending_pedestrian_phases) |->
            SignalPhase(PEDESTRIAN, pending_pedestrian_phases[i][1],
                        Duration(CrossingTime(pending_pedestrian_phases[i][2])), GREEN) ]
        turns == Flatten([ i \in 1..Len(pending_turn_phases) |->
            << SignalPhase(pending_turn_phases[i][2], pending_turn_phases[i][1],
                           Duration(TurnDuration(pending_turn_phases[i][3])), GREEN),
               SignalPhase(pending_turn_phases[i][2], pending_turn_phases[i][1],
                           Duration(yellow_duration), YELLOW) >> ])
    IN through \o peds \o turns

\* the phases are left as they were created
ScalePhases_Unscaled(phases, target, total) ==
    phases

\* phase.duration *= target / total
ScalePhases(phases, target, total) ==
    [ i \in 1..Len(phases) |->
        [phases[i] EXCEPT !.duration = [num |-> phases[i].duration.num * target,
                                        den |-> total]] ]

\* the plan built by the non-emergency path of allocate_time (total > 0)
BuildPlan(lane_data) ==
    LET phases == CreatePhases(AllocateGreenTimes(CalculatePriorities(lane_data), lane_data))
        total == SeqSum([ i \in 1..Len(phases) |-> phases[i].duration.num ])
    IN IF total < min_cycle_time
       THEN SignalPlan(ScalePhases(phases, min_cycle_time, total),
                       Duration(min_cycle_time), FALSE)
       ELSE IF total > max_cycle_time
       THEN SignalPlan(ScalePhases(phases, max_cycle_time, total),
                       Duration(max_cycle_time), FALSE)
       ELSE SignalPlan(phases, Duration(total), FALSE)

\* total_cycle_time before the cycle-time constraints are applied
RawCycleTime(lane_data) ==
    LET phases == CreatePhases(AllocateGreenTimes(CalculatePriorities(lane_data), lane_data))
    IN SeqSum([ i \in 1..Len(phases) |-> phases[i].duration.num ])

\* the plan built by _create_emergency_plan
EmergencyPlan(lane) ==
    SignalPlan(<<SignalPhase(EMERGENCY, lane, Duration(EmergencyDuration), GREEN)>>,
               Duration(EmergencyDuration), TRUE)

\* the first lane of the input is taken, flagged or not
FirstEmergencyLane_FirstKey(lane_data) ==
    IF lane_data = <<>> THEN None ELSE lane_data[1][1]

\* next(lane for lane, data in lane_data.items() if data.has_emergency)
FirstEmergencyLane(lane_data) ==
    IF \E i \in 1..Len(lane_data) : lane_data[i][2].has_emergency
    THEN lane_data[CHOOSE i \in 1..Len(lane_data) :
                      /\ lane_data[i][2].has_emergency
                      /\ \A j \in 1..(i - 1) : ~lane_data[j][2].has_emergency][1]
    ELSE None

\* allocate_time takes the emergency short cut (lines 133-142)
TakesEmergencyPath(lane_data) ==
    /\ \E i \in 1..Len(lane_data) : lane_data[i][2].has_emergency
    /\ FirstEmergencyLane(lane_data) # ""

\* installation of a plan: _current_plan, cursor and phase clock
InstallPlan(plan) ==
    /\ current_plan' = <<plan>>
    /\ current_phase_index' = 0
    /\ phase_start_time' = now

\* allocate_time(lane_data)
AllocateTimeWith(lane_data) ==
    /\ call' = [Call("allocate_time", None, Len(lane_data)) EXCEPT
                     !.flagged = { lane_data[i][1] : i \in
                                     { j \in 1..Len(lane_data) : lane_data[j][2].has_emergency } },
                     !.data = lane_data]
    /\ IF TakesEmergencyPath(lane_data)
       THEN /\ InstallPlan(EmergencyPlan(FirstEmergencyLane(lane_data)))
            /\ ret' = Ret(<<>>, <<EmergencyPlan(FirstEmergencyLane(lane_data))>>, FALSE)
            /\ UNCHANGED <<pending_pedestrian_phases, pending_turn_phases>>
       ELSE /\ pending_pedestrian_phases' = <<>>
            /\ pending_turn_phases' = <<>>
            /\ IF RawCycleTime(lane_data) = 0
               THEN \* scale_factor = min_cycle_time / 0 raises ZeroDivisionError
                    /\ ret' = Raised
                    /\ UNCHANGED <<current_plan, current_phase_index, phase_start_time>>
               ELSE /\ InstallPlan(BuildPlan(lane_data))
                    /\ ret' = Ret(<<>>, <<BuildPlan(lane_data)>>, FALSE)
    /\ UNCHANGED <<now, baseVars, last_green_times, emergency_active, emergency_lane,
                   emergency_start_time, manual_override_active, manual_override_lane,
                   manual_override_end_time, transition_history, coordVars>>

\* allocate_time on any input, emergency flags included
AllocateTime ==
    \E lane_data \in OrderedDicts(Lanes, LaneDataChoices) : AllocateTimeWith(lane_data)

\* allocate_time on input in which no lane has has_emergency set
AllocateTimeNormal ==
    \E lane_data \in { ld \in OrderedDicts(Lanes, NormalLaneDataChoices) :
                           Keys(ld) \in {{}, Lanes} } :
        AllocateTimeWith(lane_data)

\* allocate_time on the demand of a two-lane intersection whose south lane
\* carries a steady light load while north is either busy or idle
DemandInputs ==
    { << <<"north", BusyLane>>, <<"south", LightLane>> >>,
      << <<"north", IdleLane>>, <<"south", LightLane>> >> }

AllocateTimeDemand ==
    \E lane_data \in DemandInputs : AllocateTimeWith(lane_data)

\* allocate_time on any demand of up to two lanes, none with an emergency
AllocateTimeRich ==
    \E lane_data \in OrderedDicts(Lanes, AllocLaneDataChoices) :
        AllocateTimeWith(lane_data)

\* add_pedestrian_phase(crosswalk, demand)
AddPedestrianPhase ==
    \E crosswalk \in Lanes, demand \in PedDemands :
        /\ Len(pending_pedestrian_phases) + Len(pending_turn_phases) < MaxPending
        /\ pending_pedestrian_phases' = Append(pending_pedestrian_phases, <<crosswalk, demand>>)
        /\ call' = Call("add_pedestrian_phase", crosswalk, demand)
        /\ ret' = NoRet
        /\ UNCHANGED <<now, baseVars, last_green_times, emergency_active, emergency_lane,
                       emergency_start_time, manual_override_active, manual_override_lane,
                       manual_override_end_time, current_plan, current_phase_index,
                       phase_start_time, pending_turn_phases, transition_history,
                       coordVars>>

\* add_pedestrian_phase(crosswalk, demand) for a few people or for a crowd
AddPedestrianCrowd ==
    \E crosswalk \in Lanes, demand \in CrowdDemands :
        /\ Len(pending_pedestrian_phases) + Len(pending_turn_phases) < MaxPending
        /\ pending_pedestrian_phases' = Append(pending_pedestrian_phases, <<crosswalk, demand>>)
        /\ call' = Call("add_pedestrian_phase", crosswalk, demand)
        /\ ret' = NoRet
        /\ UNCHANGED <<now, baseVars, last_green_times, emergency_active, emergency_lane,
                       emergency_start_time, manual_override_active, manual_override_lane,
                       manual_override_end_time, current_plan, current_phase_index,
                       phase_start_time, pending_turn_phases, transition_history,
                       coordVars>>

\* add_pedestrian_phase(crosswalk, demand) for a crosswalk where nobody or
\* a single person waits
AddPedestrianSparse ==
    \E crosswalk \in Lanes, demand \in SparseDemands :
        /\ Len(pending_pedestrian_phases) + Len(pending_turn_phases) < MaxPending
        /\ pending_pedestrian_phases' = Append(pending_pedestrian_phases, <<crosswalk, demand>>)
        /\ call' = Call("add_pedestrian_phase", crosswalk, demand)
        /\ ret' = NoRet
        /\ UNCHANGED <<now, baseVars, last_green_times, emergency_active, emergency_lane,
                       emergency_start_time, manual_override_active, manual_override_lane,
                       manual_override_end_time, current_plan, current_phase_index,
                       phase_start_time, pending_turn_phases, transition_history,
                       coordVars>>

\* add_turn_phase(lane, phase_type, demand)
AddTurnPhase ==
    \E lane \in Lanes, demand \in TurnDemands :
        /\ Len(pending_pedestrian_phases) + Len(pending_turn_phases) < MaxPending
        /\ pending_turn_phases' = Append(pending_turn_phases, <<lane, PROTECTED_LEFT, demand>>)
        /\ call' = Call("add_turn_phase", lane, demand)
        /\ ret' = NoRet
        /\ UNCHANGED <<now, baseVars, last_green_times, emergency_active, emergency_lane,
                       emergency_start_time, manual_override_active, manual_override_lane,
                       manual_override_end_time, current_plan, current_phase_index,
                       phase_start_time, pending_pedestrian_phases, transition_history,
                       coordVars>>

\* ------------------------------------------------------------------------
\* AdvancedSignalController: preemption and the tick
\* ------------------------------------------------------------------------
StateTransition(lane, old_state, new_state, timestamp) ==
    [lane |-> lane, old_state |-> old_state, new_state |-> new_state,
     timestamp |-> timestamp]

\* lane states after handle_emergency forced emergency_lane (lines 408-415)
ForcedStates(emergency_lane_arg) ==
    [ l \in DOMAIN states |-> IF l = emergency_lane_arg THEN GREEN ELSE RED ]

\* handle_emergency(emergency_lane)
HandleEmergency ==
    \E lane \in Lanes :
        /\ Len(transition_history) < MaxHistory
        /\ emergency_active' = TRUE
        /\ emergency_lane' = lane
        /\ emergency_start_time' = now
        /\ InstallPlan(EmergencyPlan(lane))
        /\ IF lane \in DOMAIN states
           THEN /\ states' = ForcedStates(lane)
                /\ transition_history' = Append(transition_history,
                       StateTransition(lane, states[lane], GREEN, now))
           ELSE UNCHANGED <<states, transition_history>>
        /\ call' = Call("handle_emergency", lane, 0)
        /\ ret' = NoRet
        /\ UNCHANGED <<now, green_times, remaining_times, active_lane, lane_queue,
                       last_green_times, manual_override_active, manual_override_lane,
                       manual_override_end_time, pending_pedestrian_phases,
                       pending_turn_phases, coordVars>>

\* clear_emergency()
ClearEmergency ==
    /\ emergency_active' = FALSE
    /\ emergency_lane' = None
    /\ emergency_start_time' = 0
    /\ call' = Call("clear_emergency", None, 0)
    /\ ret' = NoRet
    /\ UNCHANGED <<now, baseVars, last_green_times, manual_override_active,
                   manual_override_lane, manual_override_end_time, current_plan,
                   current_phase_index, phase_start_time, pending_pedestrian_phases,
                   pending_turn_phases, transition_history, coordVars>>

\* the lane check is made after the override has been armed
OverrideRejected_AfterArming ==
    /\ ret' = Raised
    /\ manual_override_active' = TRUE
    /\ UNCHANGED <<states, manual_override_lane, manual_override_end_time,
                   transition_history>>

\* lines 552-553: raise ValueError before anything is written
OverrideRejected ==
    /\ ret' = Raised
    /\ UNCHANGED <<states, manual_override_active, manual_override_lane,
                   manual_override_end_time, transition_history>>

\* override_signal(lane, state, duration)
OverrideSignal ==
    \E lane \in Lanes, state \in SignalState, duration \in OverrideDurations :
        /\ Len(transition_history) < MaxOverrides
        /\ call' = Call("override_signal", lane, duration)
        /\ IF lane \notin DOMAIN states
           THEN OverrideRejected
           ELSE /\ states' = [states EXCEPT ![lane] = state]
                /\ manual_override_active' = TRUE
                /\ manual_override_lane' = lane
                /\ manual_override_end_time' = now + duration
                /\ transition_history' = Append(transition_history,
                       StateTransition(lane, states[lane], state, now))
                /\ ret' = NoRet
        /\ UNCHANGED <<now, green_times, remaining_times, active_lane, lane_queue,
                       last_green_times, emergency_active, emergency_lane,
                       emergency_start_time, current_plan, current_phase_index,
                       phase_start_time, pending_pedestrian_phases, pending_turn_phases,
                       coordVars>>

\* the manual override check is skipped
OverrideHolds_Skipped ==
    FALSE

\* update_state returns at line 470: the manual override is still running
OverrideHolds ==
    manual_override_active /\ ~(now >= manual_override_end_time)

\* the emergency hold check is skipped
EmergencyHolds_Skipped ==
    FALSE

\* update_state returns at line 481: the emergency hold is still running
EmergencyHolds ==
    emergency_active /\
        ~(emergency_start_time # 0 /\ now - emergency_start_time >= EmergencyHoldSeconds)

\* line 484: there is a plan and the cursor is inside it
PlanInProgress ==
    current_plan # <<>> /\ current_phase_index < Len(current_plan[1].phases)

\* line 488: phase_elapsed >= current_phase.duration
PhaseComplete(phase) ==
    (now - phase_start_time) * phase.duration.den >= phase.duration.num

\* lines 495-502: the state the lanes of a completed phase move to
CompletedState(phase_state) ==
    IF phase_state = GREEN THEN YELLOW ELSE RED

\* lines 490-536: completion of the current phase and start of the next one
CompletePhase ==
    LET phases == current_plan[1].phases
        cur == phases[current_phase_index + 1]
        lane == cur.lanes[1]
        known == lane \in DOMAIN states
        st1 == IF known THEN [states EXCEPT ![lane] = CompletedState(cur.state)]
               ELSE states
        tr1 == IF known
               THEN <<StateTransition(lane, states[lane], CompletedState(cur.state), now)>>
               ELSE <<>>
        hasNext == current_phase_index + 1 < Len(phases)
        nxt == phases[current_phase_index + 2]
        startNext == hasNext /\ nxt.lanes[1] \in DOMAIN states
        st2 == IF startNext THEN [st1 EXCEPT ![nxt.lanes[1]] = nxt.state] ELSE st1
        tr2 == IF startNext
               THEN <<StateTransition(nxt.lanes[1], st1[nxt.lanes[1]], nxt.state, now)>>
               ELSE <<>>
    IN /\ states' = st2
       /\ last_green_times' =
              IF known /\ states[lane] = GREEN
              THEN [ l \in DOMAIN last_green_times \cup {lane} |->
                       IF l = lane THEN now ELSE last_green_times[l] ]
              ELSE last_green_times
       /\ current_phase_index' = current_phase_index + 1
       /\ phase_start_time' = now
       /\ ret' = Ret(tr1 \o tr2, <<>>, FALSE)
       /\ UNCHANGED <<green_times, remaining_times, active_lane, lane_queue>>

\* lines 483-541: what a tick does once neither hold applies
Progress(elapsed) ==
    IF PlanInProgress
    THEN IF PhaseComplete(current_plan[1].phases[current_phase_index + 1])
         THEN CompletePhase
         ELSE /\ ret' = NoRet
              /\ UNCHANGED <<baseVars, last_green_times, current_phase_index,
                             phase_start_time>>
    ELSE /\ active_lane # None =>
                remaining_times[active_lane] - elapsed >= -MaxOvershoot
         /\ BaseUpdateState(elapsed)
         /\ ret' = NoRet
         /\ UNCHANGED <<last_green_times, current_phase_index, phase_start_time>>

\* AdvancedSignalController.update_state(elapsed_time)
UpdateStateWith(elapsed) ==
    /\ call' = Call("update_state", None, elapsed)
    /\ UNCHANGED <<now, current_plan, pending_pedestrian_phases, pending_turn_phases,
                   transition_history, manual_override_end_time, coordVars>>
    /\ IF OverrideHolds
       THEN /\ ret' = NoRet
            /\ UNCHANGED <<baseVars, last_green_times, emergency_active,
                           emergency_lane, emergency_start_time,
                           manual_override_active, manual_override_lane,
                           current_phase_index, phase_start_time>>
       ELSE /\ manual_override_active' = FALSE
            /\ manual_override_lane' =
                   IF manual_override_active THEN None ELSE manual_override_lane
            /\ IF EmergencyHolds
               THEN /\ ret' = NoRet
                    /\ UNCHANGED <<baseVars, last_green_times, emergency_active,
                                   emergency_lane, emergency_start_time,
                                   current_phase_index, phase_start_time>>
               ELSE /\ emergency_active' = FALSE
                    /\ emergency_lane' =
                           IF emergency_active THEN None ELSE emergency_lane
                    /\ emergency_start_time' =
                           IF emergency_active THEN 0 ELSE emergency_start_time
                    /\ Progress(elapsed)

\* update_state called with the elapsed times of the main loop
UpdateState ==
    \E elapsed \in ElapsedChoices : UpdateStateWith(elapsed)

\* update_state called with the elapsed time of a whole green phase
UpdateStateDemand ==
    \E elapsed \in DemandElapsedChoices : UpdateStateWith(elapsed)

\* a normal cycle: no override, no emergency
NormalNext ==
    \/ Pass
    \/ StartCycle
    \/ AllocateTimeNormal
    \/ AddPedestrianPhase
    \/ AddTurnPhase
    \/ UpdateState

SpecNormal == Init /\ [][NormalNext]_vars

\* manual overrides on top of a running plan
OverrideNext ==
    \/ Pass
    \/ StartCycle
    \/ AllocateTimeNormal
    \/ UpdateState
    \/ OverrideSignal

SpecOverride == Init /\ [][OverrideNext]_vars

\* emergency preemption through has_emergency flags handed to allocate_time
EmergencyNext ==
    \/ Pass
    \/ StartCycle
    \/ AllocateTime
    \/ UpdateState

SpecEmergency == Init /\ [][EmergencyNext]_vars

\* emergency preemption through handle_emergency / clear_emergency
PreemptNext ==
    \/ Pass
    \/ StartCycle
    \/ UpdateState
    \/ HandleEmergency
    \/ ClearEmergency

SpecPreempt == Init /\ [][PreemptNext]_vars

\* the same calls, with ticks and the wall clock never stopping for good
SpecPreemptLive ==
    Init /\ [][PreemptNext]_vars /\ WF_vars(UpdateState) /\ WF_vars(Pass)

\* plans allocated from lane demand and run over several minutes
DemandNext ==
    \/ PassLong
    \/ StartCycle
    \/ AllocateTimeDemand
    \/ UpdateStateDemand

SpecDemand == Init /\ [][DemandNext]_vars

\* the main loop keeps ticking: update_state is called again and again, with
\* or without a plan, and the clock keeps running up to its bound
FallbackNext ==
    \/ Pass
    \/ StartCycle
    \/ AllocateTimeNormal
    \/ UpdateState

SpecFallback ==
    Init /\ [][FallbackNext]_vars /\ WF_vars(UpdateState) /\ WF_vars(Pass)

\* allocation alone: phase requests are queued and plans are computed
AllocateNext ==
    \/ AllocateTimeRich
    \/ AddPedestrianCrowd
    \/ AddTurnPhase

SpecAllocate == Init /\ [][AllocateNext]_vars

\* crossings requested for few or no pedestrians between allocations
CrossingNext ==
    \/ AllocateTimeRich
    \/ AddPedestrianSparse

SpecCrossing == Init /\ [][CrossingNext]_vars

\* phase requests are queued between allocations, some of which preempt
RequestsNext ==
    \/ AddPedestrianPhase
    \/ AddTurnPhase
    \/ AllocateTime

SpecRequests == Init /\ [][RequestsNext]_vars

\* ------------------------------------------------------------------------
\* MultiIntersectionCoordinator
\* ------------------------------------------------------------------------
Range(seq) == { seq[i] : i \in 1..Len(seq) }

\* the network configurations a coordinator may be constructed with
Networks ==
    { config \in
        { NetworkConfig(ints, conns, [ pair \in Range(conns) |-> t ], enabled) :
            ints \in IntersectionChoices, conns \in ConnectionChoices,
            t \in TravelTimeChoices, enabled \in BOOLEAN } :
        \A i \in 1..Len(config.connections) :
            {config.connections[i][1], config.connections[i][2]}
                \subseteq Range(config.intersections) }

\* the travel_times maps handed to calculate_offsets: none, one value for
\* every connection, or a value for the first connection only
TravelTimeArgs ==
    {EmptyDict}
    \cup { [ pair \in Range(network_config.connections) |-> t ] : t \in TravelTimeChoices }
    \cup { [ pair \in {network_config.connections[1]} |-> t ] : t \in TravelTimeChoices }

\* a registered scheduler: its config.max_cycle_time and its phase clock
Controller(cycle_time, phase_start) ==
    [max_cycle_time |-> cycle_time, phase_start_time |-> phase_start]

CoordinationPlan(corridor, direction, plan_offsets, target_speed, cycle_time) ==
    [corridor |-> corridor, direction |-> direction, offsets |-> plan_offsets,
     target_speed |-> target_speed, cycle_time |-> cycle_time]

CoordRet(returned_offsets, plan, raised) ==
    [offsets |-> returned_offsets, plan |-> plan, raised |-> raised]
CoordNoRet == CoordRet(EmptyDict, <<>>, FALSE)
CoordRaised == CoordRet(EmptyDict, <<>>, TRUE)

\* dict.get(key, default)
Get(d, key, default) == IF key \in DOMAIN d THEN d[key] ELSE default

\* d[key] = value
Put(d, key, value) ==
    [ k \in DOMAIN d \cup {key} |-> IF k = key THEN value ELSE d[k] ]

\* lines 139-147: the cycle time calculate_offsets uses for an intersection
CycleTimeOf(iid) ==
    IF iid \in DOMAIN controllers THEN controllers[iid].max_cycle_time
    ELSE DefaultCycleTime

\* the intersection is not part of the configured network
UnknownId(iid) == iid \notin Range(network_config.intersections)

\* register_intersection(intersection_id, controller)
RegisterIntersection ==
    \E iid \in Range(network_config.intersections) \cup {UnknownIntersection},
       cycle \in CycleTimeChoices :
        /\ call' = Call("register_intersection", iid, cycle)
        /\ IF UnknownId(iid)
           THEN /\ ret' = CoordRaised
                /\ UNCHANGED <<controllers, offsets>>
           ELSE /\ controllers' = Put(controllers, iid, Controller(cycle, 0))
                /\ offsets' = IF iid \in DOMAIN offsets THEN offsets
                               ELSE Put(offsets, iid, 0)
                /\ ret' = CoordNoRet
        /\ UNCHANGED <<now, baseVars, advVars, network_config, coordination_plans,
                       last_sync_time, total_vehicles_processed, total_stops,
                       total_travel_time, vehicle_count>>

\* the offset of the upstream intersection is not carried forward
NewOffset_TravelTimeOnly(current, travel_time, current_offsets) ==
    travel_time % CycleTimeOf(current)

\* line 157: the offset given to an intersection reached from `current`
NewOffset(current, travel_time, current_offsets) ==
    (current_offsets[current] + travel_time) % CycleTimeOf(current)

\* lines 150-161: the loop over the connections, from the k-th one on, for
\* the intersection just taken from the queue
RECURSIVE ScanConnections(_, _, _, _)
ScanConnections(k, current, travel_times, st) ==
    IF k > Len(network_config.connections) THEN st
    ELSE LET from_id == network_config.connections[k][1]
             to_id == network_config.connections[k][2]
             new_offset == NewOffset(current,
                                     Get(travel_times, <<from_id, to_id>>, 0),
                                     st.offsets)
         IN IF from_id = current /\ to_id \notin st.processed
            THEN ScanConnections(k + 1, current, travel_times,
                     [offsets |-> Put(st.offsets, to_id, new_offset),
                      processed |-> st.processed \cup {to_id},
                      queue |-> Append(st.queue, to_id)])
            ELSE ScanConnections(k + 1, current, travel_times, st)

\* lines 134-161: the while loop over the queue
RECURSIVE Propagate(_, _)
Propagate(travel_times, st) ==
    IF st.queue = <<>> THEN st.offsets
    ELSE Propagate(travel_times,
             ScanConnections(1, Head(st.queue), travel_times,
                             [st EXCEPT !.queue = Tail(st.queue)]))

\* the map calculate_offsets(travel_times) returns
CalculatedOffsets(travel_times) ==
    LET ids == network_config.intersections
    IN IF DOMAIN travel_times = {}
       THEN [ iid \in Range(ids) |-> 0 ]
       ELSE LET reached == Propagate(travel_times,
                               [offsets |-> Put(EmptyDict, ids[1], 0),
                                processed |-> {ids[1]},
                                queue |-> <<ids[1]>>])
            IN [ iid \in DOMAIN reached \cup Range(ids) |->
                   IF iid \in DOMAIN reached THEN reached[iid] ELSE 0 ]

\* what calculate_offsets leaves in _offsets (line 169; the early return of
\* line 111 stores nothing)
StoredOffsets(travel_times) ==
    IF DOMAIN travel_times = {} THEN offsets ELSE CalculatedOffsets(travel_times)

\* calculate_offsets(travel_times)
CalculateOffsets ==
    \E travel_times \in TravelTimeArgs :
        /\ call' = [Call("calculate_offsets", None, 0) EXCEPT !.data = travel_times]
        /\ offsets' = StoredOffsets(travel_times)
        /\ ret' = CoordRet(CalculatedOffsets(travel_times), <<>>, FALSE)
        /\ UNCHANGED <<now, baseVars, advVars, network_config, controllers,
                       coordination_plans, last_sync_time, total_vehicles_processed,
                       total_stops, total_travel_time, vehicle_count>>

\* the rate limit is dropped: offsets are applied on every call
SyncDue_EveryCall ==
    network_config.coordination_enabled

\* lines 180-187: coordination is enabled and the sync interval has passed
SyncDue ==
    /\ network_config.coordination_enabled
    /\ ~(now - last_sync_time < SyncInterval)

\* synchronize_signals()
SynchronizeSignals ==
    /\ call' = Call("synchronize_signals", None, 0)
    /\ ret' = CoordNoRet
    /\ IF SyncDue
       THEN /\ last_sync_time' = now
            /\ controllers' =
                   [ iid \in DOMAIN controllers |->
                       [controllers[iid] EXCEPT
                           !.phase_start_time = now - Get(offsets, iid, 0)] ]
       ELSE UNCHANGED <<last_sync_time, controllers>>
    /\ UNCHANGED <<now, baseVars, advVars, network_config, offsets,
                   coordination_plans, total_vehicles_processed, total_stops,
                   total_travel_time, vehicle_count>>

\* only the empty corridor is rejected
CorridorInvalid_EmptyOnly(corridor) ==
    corridor = <<>>

\* lines 213-219: the corridor is empty or names an unknown intersection
CorridorInvalid(corridor) ==
    corridor = <<>> \/ \E i \in 1..Len(corridor) : UnknownId(corridor[i])

\* lines 222-229: the travel times along the corridor
CorridorTravelTimes(corridor) ==
    [ pair \in { <<corridor[i], corridor[i + 1]>> : i \in 1..(Len(corridor) - 1) } |->
        Get(network_config.travel_times, pair, DefaultCorridorTravelTime) ]

\* lines 236-241: the target speed as the rational num/den (400 m between
\* intersections; 13.9 m/s when there is no segment or no travel time)
TargetSpeed(corridor_travel_times) ==
    LET total == SumOver(corridor_travel_times, DOMAIN corridor_travel_times)
    IN IF DOMAIN corridor_travel_times # {} /\ total > 0
       THEN [num |-> 400 * Cardinality(DOMAIN corridor_travel_times), den |-> total]
       ELSE [num |-> 139, den |-> 10]

\* create_green_wave(corridor, direction)
CreateGreenWave ==
    \E corridor \in CorridorChoices :
        /\ CorridorInvalid(corridor) \/ Len(coordination_plans) < MaxPlans
        /\ call' = [Call("create_green_wave", None, Len(corridor)) EXCEPT
                         !.data = corridor]
        /\ IF CorridorInvalid(corridor)
           THEN /\ ret' = CoordRaised
                /\ UNCHANGED <<offsets, coordination_plans>>
           ELSE LET travel_times == CorridorTravelTimes(corridor)
                    plan == CoordinationPlan(corridor, "northbound",
                                CalculatedOffsets(travel_times),
                                TargetSpeed(travel_times),
                                CycleTimeOf(corridor[1]))
                IN /\ offsets' = StoredOffsets(travel_times)
                   /\ coordination_plans' = Append(coordination_plans, plan)
                   /\ ret' = CoordRet(plan.offsets, <<plan>>, FALSE)
        /\ UNCHANGED <<now, baseVars, advVars, network_config, controllers,
                       last_sync_time, total_vehicles_processed, total_stops,
                       total_travel_time, vehicle_count>>

\* a freshly constructed coordinator of any network with coordination enabled
OffsetsInit ==
    /\ ControllerInit
    /\ \E config \in { n \in Networks : n.coordination_enabled } :
           CoordinatorInit(config)
    /\ call = Call("init", None, 0)
    /\ ret = CoordNoRet

\* registration, offset computation and green waves
OffsetsNext ==
    \/ RegisterIntersection
    \/ CalculateOffsets
    \/ CreateGreenWave

SpecOffsets == OffsetsInit /\ [][OffsetsNext]_vars

\* a freshly constructed coordinator of a two-intersection network, with
\* coordination enabled or disabled
SyncInit ==
    /\ ControllerInit
    /\ \E config \in { n \in Networks : Len(n.intersections) = 2 } :
           CoordinatorInit(config)
    /\ call = Call("init", None, 0)
    /\ ret = CoordNoRet

\* registration, offset computation and periodic synchronization
SyncNext ==
    \/ Pass
    \/ RegisterIntersection
    \/ CalculateOffsets
    \/ SynchronizeSignals

SpecSync == SyncInit /\ [][SyncNext]_vars

\* the rational num/den
Ratio(num, den) == [num |-> num, den |-> den]

NetworkMetrics(average_travel_time, stops_per_vehicle, coordination_quality, total_throughput, network_delay) ==
    [average_travel_time |-> average_travel_time,
     stops_per_vehicle |-> stops_per_vehicle,
     coordination_quality |-> coordination_quality,
     total_throughput |-> total_throughput,
     network_delay |-> network_delay]

MetricsRet(metrics) == [metrics |-> metrics, plan |-> <<>>, raised |-> FALSE]

\* the stops one vehicle may report to update_metrics
VehicleStopChoices == 0..MaxVehicleStops

\* lines 272-274: the average travel time
AverageTravelTime(travel_time, count) ==
    IF count > 0 THEN Ratio(travel_time, count) ELSE Ratio(0, 1)

\* the stops are reported as a total, not per vehicle
StopsPerVehicle_Total(stops, count) ==
    Ratio(stops, 1)

\* lines 277-279: the stops per vehicle
StopsPerVehicle(stops, count) ==
    IF count > 0 THEN Ratio(stops, count) ELSE Ratio(0, 1)

\* lines 284-292: the coordination quality, 1 - spv/2 up to one stop per
\* vehicle and max(0, 1 - spv/4) above it; 0 when no vehicle was recorded
CoordinationQuality(stops, count) ==
    IF count > 0
    THEN IF stops <= count
         THEN Ratio(2 * count - stops, 2 * count)
         ELSE IF 4 * count - stops > 0
              THEN Ratio(4 * count - stops, 4 * count)
              ELSE Ratio(0, 1)
    ELSE Ratio(0, 1)

\* update_metrics(vehicle_travel_time, vehicle_stops)
UpdateMetrics ==
    \E vehicle_travel_time \in TravelTimeChoices, vehicle_stops \in VehicleStopChoices :
        /\ vehicle_count < MaxVehicles
        /\ call' = [Call("update_metrics", None, vehicle_stops) EXCEPT
                         !.data = <<vehicle_travel_time>>]
        /\ ret' = CoordNoRet
        /\ total_travel_time' = total_travel_time + vehicle_travel_time
        /\ total_stops' = total_stops + vehicle_stops
        /\ vehicle_count' = vehicle_count + 1
        /\ total_vehicles_processed' = total_vehicles_processed + 1
        /\ UNCHANGED <<now, baseVars, advVars, network_config, controllers, offsets,
                       coordination_plans, last_sync_time>>

\* reset_metrics()
ResetMetrics ==
    /\ call' = Call("reset_metrics", None, 0)
    /\ ret' = CoordNoRet
    /\ total_vehicles_processed' = 0
    /\ total_stops' = 0
    /\ total_travel_time' = 0
    /\ vehicle_count' = 0
    /\ UNCHANGED <<now, baseVars, advVars, network_config, controllers, offsets,
                   coordination_plans, last_sync_time>>

\* get_network_metrics()
GetNetworkMetrics ==
    /\ call' = Call("get_network_metrics", None, 0)
    /\ ret' = MetricsRet(NetworkMetrics(
                  AverageTravelTime(total_travel_time, vehicle_count),
                  StopsPerVehicle(total_stops, vehicle_count),
                  CoordinationQuality(total_stops, vehicle_count),
                  total_vehicles_processed,
                  0))
    /\ UNCHANGED <<now, baseVars, advVars, coordVars>>

\* vehicles are recorded and the network metrics are read and reset
MetricsNext ==
    \/ UpdateMetrics
    \/ ResetMetrics
    \/ GetNetworkMetrics

SpecMetrics == Init /\ [][MetricsNext]_vars

\* ------------------------------------------------------------------------
\* The main loop: the controller is registered as 'main', a plan is
\* allocated, and every iteration lets time pass, ticks the controller and
\* synchronizes the network
\* ------------------------------------------------------------------------

\* the lane data of the allocation that starts the cycle
LoopLaneData ==
    { ld \in OrderedDicts(Lanes, NormalLaneDataChoices) : ld # <<>> }

\* main.py 418 / 427: coordinator.register_intersection('main', signal_controller)
RegisterMain ==
    /\ call.op = "init"
    /\ call' = Call("register_intersection", "main", max_cycle_time)
    /\ ret' = CoordNoRet
    /\ controllers' = Put(controllers, "main",
                          Controller(max_cycle_time, phase_start_time))
    /\ offsets' = IF "main" \in DOMAIN offsets THEN offsets
                   ELSE Put(offsets, "main", 0)
    /\ UNCHANGED <<now, baseVars, advVars, network_config, coordination_plans,
                   last_sync_time, total_vehicles_processed, total_stops,
                   total_travel_time, vehicle_count>>

\* main.py 587: the allocation that starts the cycle, with or without a
\* coordinator
LoopAllocate ==
    /\ call.op \in {"init", "register_intersection"}
    /\ \E lane_data \in LoopLaneData : AllocateTimeWith(lane_data)

\* the time one iteration of the loop takes
LoopPass ==
    /\ \/ call.op \in {"allocate_time", "synchronize_signals"}
       \/ call.op = "update_state" /\ "main" \notin DOMAIN controllers
    /\ \E d \in LoopTimeSteps :
           /\ now + d <= MaxLoopTime
           /\ now' = now + d
           /\ call' = Call("pass", None, d)
           /\ ret' = NoRet
           /\ UNCHANGED <<baseVars, advVars, coordVars>>

\* main.py 611-615: update_state(elapsed) with the time since the last tick
LoopUpdateState ==
    /\ call.op = "pass"
    /\ UpdateStateWith(call.arg)

\* main.py 627-628: synchronize_signals() on the coordinator that holds the
\* controller as 'main'; line 200 writes the controller's _phase_start_time
LoopSynchronize ==
    /\ call.op = "update_state"
    /\ "main" \in DOMAIN controllers
    /\ call' = Call("synchronize_signals", None, 0)
    /\ ret' = CoordNoRet
    /\ IF SyncDue
       THEN /\ last_sync_time' = now
            /\ controllers' =
                   [ iid \in DOMAIN controllers |->
                       [controllers[iid] EXCEPT
                           !.phase_start_time = now - Get(offsets, iid, 0)] ]
            /\ phase_start_time' = now - Get(offsets, "main", 0)
       ELSE UNCHANGED <<last_sync_time, controllers, phase_start_time>>
    /\ UNCHANGED <<now, baseVars, last_green_times, emergency_active, emergency_lane,
                   emergency_start_time, manual_override_active, manual_override_lane,
                   manual_override_end_time, current_plan, current_phase_index,
                   pending_pedestrian_phases, pending_turn_phases,
                   transition_history, network_config, offsets, coordination_plans,
                   total_vehicles_processed, total_stops, total_travel_time,
                   vehicle_count>>

LoopNext ==
    \/ RegisterMain
    \/ LoopAllocate
    \/ LoopPass
    \/ LoopUpdateState
    \/ LoopSynchronize

\* the loop keeps running: every step of an iteration is eventually taken
SpecLoop ==
    /\ Init /\ [][LoopNext]_vars
    /\ WF_vars(LoopAllocate) /\ WF_vars(LoopPass)
    /\ WF_vars(LoopUpdateState) /\ WF_vars(LoopSynchronize)

\* ------------------------------------------------------------------------
\* Properties
\* ------------------------------------------------------------------------
LitLanes == { l \in DOMAIN states : states[l] \in {GREEN, YELLOW} }

\* C1: after any sequence of controller calls at most one lane of the
\* intersection is GREEN or YELLOW.
C1_AtMostOneLaneLit ==
    Cardinality(LitLanes) <= 1

\* C2: in a normal cycle (no override, no emergency), after every tick at
\* most one lane is GREEN or YELLOW and every other lane is RED.
C2_NormalTickMutualExclusion ==
    call.op = "update_state" =>
        \E lit \in SUBSET DOMAIN states :
            /\ Cardinality(lit) <= 1
            /\ \A l \in DOMAIN states \ lit : states[l] = RED

\* C3: in the base SignalController, after start_cycle and any number of
\* update_state calls, a lane that is GREEN or YELLOW is the active lane, so
\* at most one lane is lit and all others are RED.
C3_BaseOnlyActiveLaneLit ==
    \A l \in DOMAIN states :
        IF l = active_lane THEN states[l] \in {GREEN, YELLOW} ELSE states[l] = RED

\* C3 witness: the first lane has run through GREEN and YELLOW and the
\* second lane of a two-lane cycle has been made the active GREEN lane.
C3_Witness ==
    /\ call.op = "update_state"
    /\ Cardinality(DOMAIN states) = 2
    /\ lane_queue = <<>>
    /\ active_lane # None
    /\ states[active_lane] = GREEN
    /\ \E l \in DOMAIN states : l # active_lane /\ states[l] = RED

\* C4: handle_emergency(L), from any prior state, immediately leaves
\* get_current_states()[L] = GREEN and every other lane RED.
C4_HandleEmergencyForcesGreen ==
    call.op = "handle_emergency" =>
        /\ call.lane \in DOMAIN states
        /\ states[call.lane] = GREEN
        /\ \A l \in DOMAIN states \ {call.lane} : states[l] = RED

\* C5: handle_emergency(L) called twice in a row leaves the scheduler in the
\* state one call leaves it in: lane states, emergency plan, emergency flag
\* and the recorded transitions.
C5_HandleEmergencyIdempotent ==
    [][ (/\ call.op = "handle_emergency"
         /\ call'.op = "handle_emergency"
         /\ call'.lane = call.lane)
        => /\ states' = states
           /\ current_plan' = current_plan
           /\ current_phase_index' = current_phase_index
           /\ emergency_active' = emergency_active
           /\ emergency_lane' = emergency_lane
           /\ transition_history' = transition_history ]_vars

\* C6: while a plan installed by allocate_time for an emergency on lane L is
\* the active plan, no lane other than L is GREEN.
C6_EmergencyPlanAbsolute ==
    (current_plan # <<>> /\ current_plan[1].emergency_override) =>
        \A l \in DOMAIN states :
            states[l] = GREEN => l = current_plan[1].phases[1].lanes[1]

\* C7: when some lane of the input has has_emergency set, allocate_time
\* returns and installs a plan of exactly one phase: EMERGENCY, GREEN, for a
\* flagged lane, of the fixed preemption duration, emergency_override true.
C7_EmergencyAllocation ==
    (call.op = "allocate_time" /\ call.flagged # {}) =>
        /\ ~ret.raised
        /\ ret.plan # <<>>
        /\ current_plan = ret.plan
        /\ current_phase_index = 0
        /\ Len(current_plan[1].phases) = 1
        /\ current_plan[1].phases[1].phase_type = EMERGENCY
        /\ current_plan[1].phases[1].state = GREEN
        /\ Len(current_plan[1].phases[1].lanes) = 1
        /\ current_plan[1].phases[1].lanes[1] \in call.flagged
        /\ current_plan[1].phases[1].duration = [num |-> EmergencyDuration, den |-> 1]
        /\ current_plan[1].total_cycle_time = [num |-> EmergencyDuration, den |-> 1]
        /\ current_plan[1].emergency_override = TRUE

\* C7 witness: allocate_time was called with two lanes of which only the
\* second one carries the emergency flag.
C7_Witness ==
    /\ call.op = "allocate_time"
    /\ call.arg = 2
    /\ Cardinality(call.flagged) = 1
    /\ current_plan # <<>>
    /\ current_plan[1].emergency_override

\* C8: while a manual override is active and unexpired, every tick returns an
\* empty transition list and leaves all lane states, the phase cursor and the
\* active plan unchanged.
C8_OverrideFreezesTick ==
    [][ (/\ call'.op = "update_state"
         /\ manual_override_active
         /\ now < manual_override_end_time)
        => /\ ret'.transitions = <<>>
           /\ states' = states
           /\ remaining_times' = remaining_times
           /\ active_lane' = active_lane
           /\ current_plan' = current_plan
           /\ current_phase_index' = current_phase_index
           /\ phase_start_time' = phase_start_time
           /\ manual_override_active' ]_vars

\* C8 witness: a tick was made under an unexpired override although the
\* current phase of the plan had run its full duration.
C8_Witness ==
    /\ call.op = "update_state"
    /\ manual_override_active
    /\ now < manual_override_end_time
    /\ PlanInProgress
    /\ (now - phase_start_time) * current_plan[1].phases[current_phase_index + 1].duration.den
           >= current_plan[1].phases[current_phase_index + 1].duration.num
    /\ Cardinality(DOMAIN states) = 2

\* C9: after override(lane, state, d), a tick whose elapsed time exceeds d
\* clears the override.
C9_ElapsedBeyondDurationClearsOverride ==
    [][ (/\ call.op = "override_signal"
         /\ ~ret.raised
         /\ call'.op = "update_state"
         /\ call'.arg > call.arg)
        => ~manual_override_active' ]_vars

\* C10 as stated: while an emergency hold is active every tick returns an
\* empty transition list, changes no lane state and does not end the hold.
C10_TickNeverEndsHold ==
    [][ (call'.op = "update_state" /\ emergency_active)
        => /\ ret'.transitions = <<>>
           /\ states' = states
           /\ emergency_active' ]_vars

\* C10 amended: while an emergency hold is active and less than 30 seconds
\* have passed on the clock since handle_emergency began it, every tick
\* returns an empty transition list, changes no lane state and keeps the
\* hold; the hold ends only by clear_emergency or by a tick made at least 30
\* seconds after it began.
C10_HoldFreezesTickUntilExpiry ==
    [][ /\ (/\ call'.op = "update_state"
            /\ emergency_active
            /\ now - emergency_start_time < 30)
           => /\ ret'.transitions = <<>>
              /\ states' = states
              /\ emergency_active'
        /\ (emergency_active /\ ~emergency_active')
           => \/ call'.op = "clear_emergency"
              \/ /\ call'.op = "update_state"
                 /\ now - emergency_start_time >= 30 ]_vars

\* C10 witness: a tick was made 20 seconds into an emergency hold on a
\* configured lane, and the hold is still in place.
C10_Witness ==
    /\ call.op = "update_state"
    /\ emergency_active
    /\ emergency_lane \in DOMAIN states
    /\ now - emergency_start_time > 0
    /\ now - emergency_start_time < 30

\* C11: override_signal on a lane that is not configured raises the
\* invalid-lane error and changes nothing: no lane state, no override flag,
\* lane or end time, and no recorded transition.
C11_InvalidLaneOverrideChangesNothing ==
    [][ (call'.op = "override_signal" /\ call'.lane \notin DOMAIN states)
        => /\ ret'.raised
           /\ states' = states
           /\ manual_override_active' = manual_override_active
           /\ manual_override_lane' = manual_override_lane
           /\ manual_override_end_time' = manual_override_end_time
           /\ transition_history' = transition_history
           /\ current_plan' = current_plan
           /\ current_phase_index' = current_phase_index ]_vars

\* C11 witness: override_signal was rejected on a controller that has a plan
\* installed but no configured lane.
C11_Witness ==
    /\ call.op = "override_signal"
    /\ ret.raised
    /\ call.lane \notin DOMAIN states
    /\ current_plan # <<>>
    /\ ~manual_override_active

\* C12: after allocate_time on per-lane demand (no emergency), a tick whose
\* elapsed time equals the duration of the plan's first phase returns exactly
\* one transition: GREEN -> YELLOW for the lane of the first phase (so none
\* for any other lane).
C12_FirstPhaseTickEmitsGreenToYellow ==
    [][ (/\ call.op = "allocate_time"
         /\ call.flagged = {}
         /\ ~ret.raised
         /\ call'.op = "update_state"
         /\ call'.arg * current_plan[1].phases[1].duration.den
                = current_plan[1].phases[1].duration.num)
        => /\ Len(ret'.transitions) = 1
           /\ ret'.transitions[1].lane = current_plan[1].phases[1].lanes[1]
           /\ ret'.transitions[1].old_state = GREEN
           /\ ret'.transitions[1].new_state = YELLOW ]_vars

\* C13: in normal operation (no override, no emergency) every lane state
\* change made by a tick, and every transition it emits, is one of
\* RED -> GREEN, GREEN -> YELLOW, YELLOW -> RED; none is RED -> YELLOW or
\* GREEN -> RED and none has old_state equal to new_state.
C13_TickFollowsSignalOrder ==
    [][ call'.op = "update_state"
        => /\ \A l \in DOMAIN states :
                 states'[l] # states[l] =>
                     <<states[l], states'[l]>> \in
                         {<<RED, GREEN>>, <<GREEN, YELLOW>>, <<YELLOW, RED>>}
           /\ \A i \in 1..Len(ret'.transitions) :
                 <<ret'.transitions[i].old_state, ret'.transitions[i].new_state>> \in
                     {<<RED, GREEN>>, <<GREEN, YELLOW>>, <<YELLOW, RED>>} ]_vars

NormalPlanReturned ==
    call.op = "allocate_time" /\ call.flagged = {} /\ ~ret.raised

\* C15: in every plan returned by a non-emergency allocate_time the duration
\* of every through GREEN phase lies in [min_green, max_green].
C15_ThroughGreenWithinBounds ==
    NormalPlanReturned =>
        \A i \in 1..Len(ret.plan[1].phases) :
            LET phase == ret.plan[1].phases[i]
            IN (phase.phase_type = THROUGH /\ phase.state = GREEN) =>
                   /\ min_green * phase.duration.den <= phase.duration.num
                   /\ phase.duration.num <= max_green * phase.duration.den

\* C16: every plan returned by a non-emergency allocate_time has
\* total_cycle_time within [min_cycle_time, max_cycle_time], and
\* total_cycle_time equals the sum of the (rescaled) phase durations.
C16_CycleTimeClampedAndExact ==
    NormalPlanReturned =>
        LET plan == ret.plan[1]
            den == plan.phases[1].duration.den
        IN /\ plan.phases # <<>>
           /\ min_cycle_time * plan.total_cycle_time.den <= plan.total_cycle_time.num
           /\ plan.total_cycle_time.num <= max_cycle_time * plan.total_cycle_time.den
           /\ \A i \in 1..Len(plan.phases) : plan.phases[i].duration.den = den
           /\ SeqSum([ i \in 1..Len(plan.phases) |-> plan.phases[i].duration.num ])
                  * plan.total_cycle_time.den
                = plan.total_cycle_time.num * den

\* C16 witness: allocate_time returned a plan that was scaled down to
\* max_cycle_time because a long pedestrian phase had been queued.
C16_Witness ==
    /\ NormalPlanReturned
    /\ ret.plan[1].total_cycle_time = [num |-> max_cycle_time, den |-> 1]
    /\ ret.plan[1].phases[1].duration.den > max_cycle_time
    /\ \E i \in 1..Len(ret.plan[1].phases) :
           ret.plan[1].phases[i].phase_type = PEDESTRIAN

\* C17: every YELLOW phase of every plan produced by allocate_time lasts
\* exactly yellow_duration, whatever the demand and the rescaling.
C17_YellowDurationFixed ==
    (call.op = "allocate_time" /\ ~ret.raised) =>
        \A i \in 1..Len(ret.plan[1].phases) :
            ret.plan[1].phases[i].state = YELLOW =>
                ret.plan[1].phases[i].duration.num
                    = yellow_duration * ret.plan[1].phases[i].duration.den

\* numerator of the through GREEN duration a returned plan gives to a lane
\* (all durations of one plan share their denominator)
PlanGreenOf(lane) ==
    LET phases == ret.plan[1].phases
    IN phases[CHOOSE i \in 1..Len(phases) :
                  /\ phases[i].phase_type = THROUGH
                  /\ phases[i].state = GREEN
                  /\ phases[i].lanes = <<lane>>].duration.num

\* the time of the last green of a lane as _calculate_priorities reads it
LastGreenOf(lane) ==
    IF lane \in DOMAIN last_green_times THEN last_green_times[lane] ELSE 0

\* C19: two lanes of one allocate_time call that are identical on every
\* factor except vehicle_count_A > vehicle_count_B: the green time allocated
\* to A is greater than or equal to that of B.
C19_MonotonicInVehicleCount ==
    NormalPlanReturned =>
        \A i, j \in 1..Len(call.data) :
            (/\ call.data[i][2].vehicle_count > call.data[j][2].vehicle_count
             /\ call.data[i][2] = [call.data[j][2] EXCEPT
                                      !.vehicle_count = call.data[i][2].vehicle_count]
             /\ LastGreenOf(call.data[i][1]) = LastGreenOf(call.data[j][1]))
            => PlanGreenOf(call.data[i][1]) >= PlanGreenOf(call.data[j][1])

\* C19 witness: a lane with five vehicles and an otherwise identical lane
\* with two were allocated in one call, and the busier lane got strictly more.
C19_Witness ==
    /\ NormalPlanReturned
    /\ Len(call.data) = 2
    /\ call.data[1][2] = LightLane
    /\ call.data[2][2] = HeavierLane
    /\ PlanGreenOf(call.data[2][1]) > PlanGreenOf(call.data[1][1])

\* C20: two lanes of one allocate_time call that are identical on every
\* factor (count, queue length, wait, vehicle types, time since last green)
\* receive equal green time.
C20_IdenticalLanesEqualGreen ==
    NormalPlanReturned =>
        \A i, j \in 1..Len(call.data) :
            (/\ call.data[i][2] = call.data[j][2]
             /\ LastGreenOf(call.data[i][1]) = LastGreenOf(call.data[j][1]))
            => PlanGreenOf(call.data[i][1]) = PlanGreenOf(call.data[j][1])

\* C20 witness: two lanes with the same nonzero demand and a long queue were
\* allocated in one call.
C20_Witness ==
    /\ NormalPlanReturned
    /\ Len(call.data) = 2
    /\ call.data[1][2] = QueuedLane
    /\ call.data[2][2] = QueuedLane
    /\ Len(ret.plan[1].phases) >= 4

\* C18: a lane with zero demand whose time since its last green exceeds
\* fairness_threshold gets, once time has advanced far enough (here: twice
\* the threshold), a priority strictly higher than any lane with static
\* nonzero demand that is not itself overdue; this holds for every lane,
\* including one that has never been green.
C18_StarvedLaneOutranks ==
    (call.op = "allocate_time" /\ call.flagged = {}) =>
        \A i, j \in 1..Len(call.data) :
            (/\ call.data[i][2] = IdleLane
             /\ now - LastGreenOf(call.data[i][1]) > 2 * fairness_threshold
             /\ call.data[j][2].vehicle_count > 0
             /\ FairnessBoostX100(call.data[j][1]) = 0)
            => PriorityX100(call.data[i][1], call.data[i][2])
                   > PriorityX100(call.data[j][1], call.data[j][2])

\* C21: allocate_time never raises on degenerate input: for an empty
\* lane_data map, and for input whose phase durations sum to zero, it returns
\* a plan.
C21_AllocateNeverRaises ==
    call.op = "allocate_time" => (~ret.raised /\ ret.plan # <<>>)

\* C22: when the priority of every lane of the input is zero, allocate_time
\* returns without error a plan in which the through GREEN phase of every
\* lane lasts exactly min_green.
C22_ZeroPriorityGetsMinGreen ==
    (/\ call.op = "allocate_time"
     /\ call.flagged = {}
     /\ call.data # <<>>
     /\ \A i \in 1..Len(call.data) :
            PriorityX100(call.data[i][1], call.data[i][2]) = 0)
    => /\ ~ret.raised
       /\ \A i \in 1..Len(call.data) :
              \E k \in 1..Len(ret.plan[1].phases) :
                  LET phase == ret.plan[1].phases[k]
                  IN /\ phase.phase_type = THROUGH
                     /\ phase.state = GREEN
                     /\ phase.lanes = <<call.data[i][1]>>
                     /\ phase.duration.num = min_green * phase.duration.den

\* the crosswalks of the pedestrian phases of a plan, in plan order
PedestrianPhaseLanes(plan) ==
    LET peds == SelectSeq(plan.phases, LAMBDA ph : ph.phase_type = PEDESTRIAN)
    IN [ i \in 1..Len(peds) |-> peds[i].lanes[1] ]

\* the lanes of the GREEN turn phases of a plan, in plan order
TurnPhaseLanes(plan) ==
    LET turns == SelectSeq(plan.phases,
                     LAMBDA ph : ph.phase_type = PROTECTED_LEFT /\ ph.state = GREEN)
    IN [ i \in 1..Len(turns) |-> turns[i].lanes[1] ]

\* the plan returned by an allocate_time call carries exactly the requests
\* that were queued when it was called
RequestsInReturnedPlan ==
    /\ ~ret'.raised
    /\ PedestrianPhaseLanes(ret'.plan[1])
          = [ i \in 1..Len(pending_pedestrian_phases) |-> pending_pedestrian_phases[i][1] ]
    /\ TurnPhaseLanes(ret'.plan[1])
          = [ i \in 1..Len(pending_turn_phases) |-> pending_turn_phases[i][1] ]

\* C23 as stated: every request queued with add_pedestrian_phase or
\* add_turn_phase is consumed by the next allocate_time: it is a phase of the
\* returned plan and the request queues are empty afterwards (so it is in no
\* later plan).
C23_RequestsConsumedByNextAllocate ==
    [][ (/\ call'.op = "allocate_time"
         /\ pending_pedestrian_phases \o pending_turn_phases # <<>>)
        => /\ RequestsInReturnedPlan
           /\ pending_pedestrian_phases' = <<>>
           /\ pending_turn_phases' = <<>> ]_vars

\* C23 amended: every queued request is consumed by the next allocate_time
\* whose input has no emergency flag: it is a phase of the returned plan and
\* the request queues are empty afterwards, so it is in no later plan; an
\* allocate_time whose input has an emergency flag returns the emergency
\* plan without the request and leaves it queued.
C23_RequestsConsumedByNextNormalAllocate ==
    [][ (/\ call'.op = "allocate_time"
         /\ pending_pedestrian_phases \o pending_turn_phases # <<>>)
        => IF call'.flagged = {}
           THEN /\ RequestsInReturnedPlan
                /\ pending_pedestrian_phases' = <<>>
                /\ pending_turn_phases' = <<>>
           ELSE /\ ~ret'.raised
                /\ PedestrianPhaseLanes(ret'.plan[1]) = <<>>
                /\ TurnPhaseLanes(ret'.plan[1]) = <<>>
                /\ pending_pedestrian_phases' = pending_pedestrian_phases
                /\ pending_turn_phases' = pending_turn_phases ]_vars

\* C23 witness: allocate_time on input without an emergency flag returned a
\* plan with a pedestrian phase and left the request queues empty.
C23_Witness ==
    /\ NormalPlanReturned
    /\ call.data # <<>>
    /\ PedestrianPhaseLanes(ret.plan[1]) # <<>>
    /\ pending_pedestrian_phases = <<>>
    /\ pending_turn_phases = <<>>

C25_TwoNodeOffset ==
    (/\ call.op = "calculate_offsets"
     /\ network_config.intersections = <<"A", "B">>
     /\ network_config.connections = << <<"A", "B">> >>
     /\ <<"A", "B">> \in DOMAIN call.data)
    => /\ ret.offsets["A"] = 0
       /\ ret.offsets["B"] = call.data[<<"A", "B">>] % CycleTimeOf("B")

\* the intersections reached from the reference over at most k connections
RECURSIVE ReachedWithin(_)
ReachedWithin(k) ==
    IF k = 0 THEN {network_config.intersections[1]}
    ELSE ReachedWithin(k - 1)
         \cup { pair[2] : pair \in { c \in Range(network_config.connections) :
                                       c[1] \in ReachedWithin(k - 1) } }

\* the intersections first reached over exactly k connections
HopLevel(k) ==
    IF k = 0 THEN ReachedWithin(0) ELSE ReachedWithin(k) \ ReachedWithin(k - 1)

\* C26: calculate_offsets is a breadth-first propagation from the reference
\* intersection along the directed connections: the returned map covers
\* exactly the network's intersections, the reference gets 0, an intersection
\* first reached over k connections gets (offset[from] + travel time) mod
\* cycleTime[from] for a connection from an intersection reached over k - 1
\* connections, and an intersection not reachable from the reference gets 0.
C26_OffsetsAreBreadthFirst ==
    call.op = "calculate_offsets" =>
        LET ids == Range(network_config.intersections)
            depth == Len(network_config.intersections)
        IN /\ DOMAIN ret.offsets = ids
           /\ ret.offsets[network_config.intersections[1]] = 0
           /\ \A k \in 1..depth : \A to_id \in HopLevel(k) :
                  \E from_id \in HopLevel(k - 1) :
                      /\ <<from_id, to_id>> \in Range(network_config.connections)
                      /\ ret.offsets[to_id] =
                             (ret.offsets[from_id]
                                 + Get(call.data, <<from_id, to_id>>, 0))
                             % CycleTimeOf(from_id)
           /\ \A iid \in ids \ ReachedWithin(depth) : ret.offsets[iid] = 0

\* offsets were computed for a three-intersection network in which C is
\* connected from both A and B, and B and C got non-zero offsets
C26_Witness ==
    /\ call.op = "calculate_offsets"
    /\ network_config.connections = << <<"A", "B">>, <<"A", "C">>, <<"B", "C">> >>
    /\ "A" \in DOMAIN controllers
    /\ ret.offsets["B"] # 0
    /\ ret.offsets["C"] # 0

\* C27: register_intersection with an id outside the configured
\* intersections, and create_green_wave with an empty corridor or a corridor
\* naming an unknown intersection, raise and leave the controller registry,
\* the stored offsets and the stored coordination plans unchanged.
C27_InvalidTopologyRejected ==
    [][ (\/ /\ call'.op = "register_intersection"
            /\ call'.lane \notin Range(network_config.intersections)
         \/ /\ call'.op = "create_green_wave"
            /\ \/ call'.data = <<>>
               \/ ~(Range(call'.data) \subseteq Range(network_config.intersections)))
        => /\ ret'.raised
           /\ UNCHANGED <<controllers, offsets, coordination_plans>> ]_vars

\* a corridor with an unknown intersection was rejected by a coordinator that
\* holds a registered controller, a non-zero offset and a stored plan
C27_Witness ==
    /\ call.op = "create_green_wave"
    /\ call.data # <<>>
    /\ ret.raised
    /\ DOMAIN controllers # {}
    /\ \E iid \in DOMAIN offsets : offsets[iid] # 0
    /\ coordination_plans # <<>>

C29_GreenWaveRestrictedToCorridor ==
    (call.op = "create_green_wave" /\ ~ret.raised) =>
        LET corridor == call.data
            plan == ret.plan[1]
        IN /\ DOMAIN plan.offsets = Range(corridor)
           /\ plan.offsets[corridor[1]] = 0
           /\ \A i \in 2..Len(corridor) :
                  plan.offsets[corridor[i]] =
                      (plan.offsets[corridor[i - 1]]
                          + Get(network_config.travel_times,
                                <<corridor[i - 1], corridor[i]>>,
                                DefaultCorridorTravelTime))
                      % CycleTimeOf(corridor[i - 1])

\* C30: the coordination quality get_network_metrics reports lies in [0, 1],
\* is 1 when vehicles were recorded without any stop, and is never exceeded
\* by the quality of a metric state with more stops per vehicle.
C30_QualityDecreasesWithStops ==
    call.op = "get_network_metrics" =>
        LET quality == ret.metrics.coordination_quality
            spv == ret.metrics.stops_per_vehicle
        IN /\ 0 <= quality.num /\ quality.num <= quality.den
           /\ vehicle_count > 0 =>
                /\ total_stops = 0 => quality.num = quality.den
                /\ \A count \in 1..MaxVehicles :
                     \A stops \in 0..(MaxVehicleStops * count) :
                       LET other == CoordinationQuality(stops, count)
                       IN stops * spv.den > spv.num * count
                            => other.num * quality.den <= quality.num * other.den

\* C31: every update_metrics adds its sample to the running sums and counts
\* it once, reset_metrics zeroes the sums and the counts, and
\* get_network_metrics reports average_travel_time = sum of travel times /
\* number of samples, stops_per_vehicle = sum of stops / number of samples
\* and total_throughput = number of samples, all 0 when there is no sample.
C31_MetricsAreRunningAverages ==
    [][ /\ call'.op = "update_metrics" =>
              /\ total_travel_time' = total_travel_time + call'.data[1]
              /\ total_stops' = total_stops + call'.arg
              /\ vehicle_count' = vehicle_count + 1
              /\ total_vehicles_processed' = total_vehicles_processed + 1
        /\ call'.op = "reset_metrics" =>
              /\ total_travel_time' = 0 /\ total_stops' = 0
              /\ vehicle_count' = 0 /\ total_vehicles_processed' = 0
        /\ call'.op = "get_network_metrics" =>
              /\ ret'.metrics.total_throughput = vehicle_count
              /\ total_vehicles_processed = vehicle_count
              /\ IF vehicle_count = 0
                 THEN /\ ret'.metrics.average_travel_time.num = 0
                      /\ ret'.metrics.stops_per_vehicle.num = 0
                 ELSE /\ ret'.metrics.average_travel_time
                             = [num |-> total_travel_time, den |-> vehicle_count]
                      /\ ret'.metrics.stops_per_vehicle
                             = [num |-> total_stops, den |-> vehicle_count] ]_vars

\* the metrics were read after two vehicles with stops were recorded
C31_Witness ==
    /\ call.op = "get_network_metrics"
    /\ ret.metrics.total_throughput = 2
    /\ ret.metrics.stops_per_vehicle.num > 2
    /\ ret.metrics.average_travel_time = [num |-> 100, den |-> 2]

\* the position of a lane name in lexical order
LexicalRank(lane) == IF lane = "north" THEN 1 ELSE 2

\* C32: in a plan returned by a non-emergency allocate_time the through
\* GREEN phases are in descending order of duration, through lanes of equal
\* duration are in lexical order of the lane name whatever the order of the
\* input map, and every GREEN phase is immediately followed by a YELLOW phase
\* of the same lane.
C32_PhaseOrderAndYellow ==
    NormalPlanReturned =>
        LET phases == ret.plan[1].phases
            through == SelectSeq(phases,
                           LAMBDA ph : ph.phase_type = THROUGH /\ ph.state = GREEN)
        IN /\ \A i, j \in 1..Len(through) :
                  i < j =>
                    LET first == through[i].duration
                        second == through[j].duration
                    IN /\ first.num * second.den >= second.num * first.den
                       /\ first.num * second.den = second.num * first.den
                            => LexicalRank(through[i].lanes[1])
                                   < LexicalRank(through[j].lanes[1])
           /\ \A i \in 1..Len(phases) :
                  phases[i].state = GREEN =>
                      /\ i < Len(phases)
                      /\ phases[i + 1].state = YELLOW
                      /\ phases[i + 1].lanes = phases[i].lanes

\* C33: while a plan phase is active with no override and no emergency, a
\* tick that does not end the phase decreases the remaining time of the
\* phase's lane, as get_remaining_times reports it, by the elapsed time.
C33_TickDecrementsRemainingTime ==
    [][ (/\ call'.op = "update_state"
         /\ PlanInProgress
         /\ ~manual_override_active
         /\ ~emergency_active
         /\ current_phase_index' = current_phase_index
         /\ current_plan[1].phases[current_phase_index + 1].lanes[1]
                \in DOMAIN remaining_times)
        => LET lane == current_plan[1].phases[current_phase_index + 1].lanes[1]
           IN remaining_times'[lane] = remaining_times[lane] - call'.arg ]_vars

\* C34: in the base SignalController no tick makes a lane skip a state.  A
\* GREEN lane stays GREEN while its time has not run out and then turns
\* YELLOW with remaining time exactly yellow_duration, whatever the
\* overshoot; a YELLOW lane stays YELLOW while its time has not run out and
\* then turns RED; a RED lane turns GREEN only in the tick in which the
\* active lane went from YELLOW to RED, and only if it headed the queue.
C34_BaseNeverSkipsState ==
    [][ call'.op = "update_state" =>
          \A lane \in DOMAIN states :
              LET left == remaining_times[lane] - call'.arg
              IN /\ states[lane] = GREEN =>
                       IF left <= 0
                       THEN /\ states'[lane] = YELLOW
                            /\ remaining_times'[lane] = yellow_duration
                       ELSE states'[lane] = GREEN
                 /\ states[lane] = YELLOW =>
                       states'[lane] = (IF left <= 0 THEN RED ELSE YELLOW)
                 /\ (states[lane] = RED /\ states'[lane] # RED) =>
                       /\ states'[lane] = GREEN
                       /\ lane_queue # <<>> /\ lane = Head(lane_queue)
                       /\ active_lane # None
                       /\ states[active_lane] = YELLOW
                       /\ states'[active_lane] = RED ]_vars

\* a lane whose green time was overrun by a tick is YELLOW with the full
\* yellow time while another lane waits in the queue
C34_Witness ==
    /\ call.op = "update_state"
    /\ active_lane # None
    /\ states[active_lane] = YELLOW
    /\ remaining_times[active_lane] = yellow_duration
    /\ green_times[active_lane] = 10
    /\ call.arg = 11
    /\ lane_queue # <<>>

\* C35: every pedestrian phase of a plan returned by a non-emergency
\* allocate_time that was not rescaled has the duration max(min crossing
\* time, base + (demand - 1)) of the request it was queued with, hence at
\* least the minimum crossing time of 7 s, also for a demand of 0.
C35_CrossingTimeAtLeastMinimum ==
    [][ (call'.op = "allocate_time" /\ call'.flagged = {} /\ ~ret'.raised) =>
          LET peds == SelectSeq(ret'.plan[1].phases,
                          LAMBDA ph : ph.phase_type = PEDESTRIAN)
          IN /\ Len(peds) = Len(pending_pedestrian_phases)
             /\ \A i \in 1..Len(peds) :
                    peds[i].duration.den = 1 =>
                        peds[i].duration.num =
                            Max(BaseCrossingTime,
                                BaseCrossingTime
                                    + (pending_pedestrian_phases[i][2] - 1)) ]_vars

LoopAlonePlanCompletes ==
    (PlanInProgress /\ "main" \notin DOMAIN controllers) ~> ~PlanInProgress

\* C37: once an emergency preemption of a configured lane has ended, its
\* emergency phase has run out and from then on the controller is only
\* ticked (no new plan, cycle or emergency), the ticks bring the emergency
\* lane back to RED.
C37_EmergencyLaneReturnsToRed ==
    \A lane \in Lanes :
        <>[](/\ call.op \in {"update_state", "pass"}
             /\ ~emergency_active
             /\ current_plan = <<EmergencyPlan(lane)>>
             /\ ~PlanInProgress
             /\ lane \in DOMAIN states)
            => []<>(lane \in DOMAIN states /\ states[lane] = RED)

\* an override was armed and a later tick has cleared it
OverrideCleared ==
    /\ ~manual_override_active
    /\ manual_override_end_time > 0
    /\ transition_history # <<>>

\* C38: once a manual override has expired and been cleared by a tick, the
\* display forced on the overridden lane does not conflict with the resumed
\* plan: the overridden lane is not GREEN or YELLOW together with another
\* lane.
C38_ClearedOverrideDoesNotConflict ==
    OverrideCleared =>
        LET lane == transition_history[Len(transition_history)].lane
        IN ~(lane \in LitLanes /\ LitLanes # {lane})

\* C39: after every calculate_offsets call the offsets stored in the
\* coordinator, which the next synchronize_signals applies, equal the map the
\* call returned, also when travel_times is empty and offsets of an earlier
\* computation are stored.  An intersection without a stored offset is
\* synchronized with offset 0.
C39_StoredOffsetsEqualReturned ==
    call.op = "calculate_offsets" =>
        \A iid \in Range(network_config.intersections) :
            Get(offsets, iid, 0) = ret.offsets[iid]

\* C40: in the base SignalController the lanes of a cycle turn GREEN one at
\* a time in descending order of green time, each exactly once (a lane turns
\* GREEN only when it leaves the head of the queue, and the queue holds the
\* lanes that have not been GREEN yet, none twice), and when from some point
\* on the controller is only ticked the cycle ends with every lane RED and
\* no active lane.
C40_BaseCycleRunsOnceAndEnds ==
    /\ [][ /\ call'.op = "start_cycle" =>
                /\ \A lane \in DOMAIN states' :
                       /\ (states'[lane] = GREEN) = (lane = active_lane')
                       /\ lane # active_lane' =>
                              /\ lane \in Range(lane_queue')
                              /\ green_times'[lane] <= green_times'[active_lane']
                /\ Len(lane_queue') = Cardinality(Range(lane_queue'))
           /\ call'.op = "update_state" =>
                /\ \/ lane_queue' = lane_queue
                   \/ lane_queue # <<>> /\ lane_queue' = Tail(lane_queue)
                /\ \A lane \in DOMAIN states :
                       (states[lane] # GREEN /\ states'[lane] = GREEN) =>
                           /\ lane_queue # <<>>
                           /\ lane = Head(lane_queue)
                           /\ lane_queue' = Tail(lane_queue)
                           /\ lane \notin Range(lane_queue')
                           /\ \A later \in Range(lane_queue') :
                                  green_times[later] <= green_times[lane]
                           /\ \A other \in DOMAIN states \ {lane} :
                                  states'[other] = RED ]_vars
    /\ <>[](call.op = "update_state")
           => <>[](/\ active_lane = None
                   /\ lane_queue = <<>>
                   /\ \A lane \in DOMAIN states : states[lane] = RED)

\* a cycle of two lanes with different green times was ticked to its end
C40_Witness ==
    /\ call.op = "update_state"
    /\ DOMAIN states = Lanes
    /\ green_times["north"] # green_times["south"]
    /\ active_lane = None
    /\ \A lane \in DOMAIN states : states[lane] = RED

====
